---------------------------- MODULE Spec2Model ----------------------------
(***************************************************************************)
(* Model of freecad/importNURBS/import3DM.py: the Rhino2FC converter       *)
(* (get_point_and_weight, get_FCKnots, get_bspline_curve,                  *)
(* get_bspline_surface, get_color, get_color_and_transparency) and the     *)
(* File3dm import pipeline driven by process3DM (parse_materials,          *)
(* parse_groups, parse_layers, parse_objects / import_geometry /           *)
(* import_curve).                                                          *)
(*                                                                         *)
(* Two specifications share the module.  SpecTranslator calls one Rhino2FC *)
(* method on an input drawn from bounded sets.  Spec runs process3DM on a  *)
(* file whose list lengths are fixed at the start and whose elements are   *)
(* drawn from small sets as the loops read them.                           *)
(***************************************************************************)
EXTENDS Integers, Sequences, FiniteSets, TLC

VARIABLES
    call,        \* translator harness: the Rhino2FC method called and its argument
    ret,         \* translator harness: what the call returned or raised
    pc,          \* process3DM: the loop (or end) the import is in
    i,           \* the running loop's index variable
    GuiUp,       \* FreeCAD.GuiUp
    f3dm,        \* lengths of the file's Materials, Groups, Layers, Objects lists
    r3layers,    \* the layer descriptors of f3dm.Layers read so far
    materials,   \* File3dm.materials
    groups,      \* File3dm.groups
    layers,      \* File3dm.layers
    docObjects,  \* the objects doc.addObject has created, in order
    imported,    \* the handles import_geometry returned, with their LayerIndex
    last,        \* the last import_geometry call: entity, result, document sizes
    raised       \* the exception that ended process3DM ("" while none)

vars == <<call, ret, pc, i, GuiUp, f3dm, r3layers, materials, groups, layers,
          docObjects, imported, last, raised>>

----------------------------------------------------------------------------
(* Bounds of the explored inputs. *)
MaxKnots == 4
MaxKnotValue == 2
MaxSurfKnots == 2
MaxDegree == 3
MaxCoord == 2
MaxMaterials == 2
MaxGroups == 1
MaxLayers == 2
MaxObjects == 2

----------------------------------------------------------------------------
(* Results of a Python call: a returned value or a raised exception. *)
Return(v) == [ok |-> TRUE, val |-> v]

Raise(e) == [ok |-> FALSE, exc |-> e]

Pending == [ok |-> FALSE, exc |-> "pending"]

None == 0

Abs(n) == IF n < 0 THEN -n ELSE n

RECURSIVE GCD(_, _)
GCD(a, b) == IF b = 0 THEN a ELSE GCD(b, a % b)

(* The quotient n/d as a fraction in lowest terms with a positive
   denominator (d # 0).  Stands for the double nearest to it. *)
Rat(n, d) ==
    LET g == GCD(Abs(n), Abs(d))
        s == IF d < 0 THEN -1 ELSE 1
    IN  [n |-> s * (n \div g), d |-> s * (d \div g)]

RatInt(n) == [n |-> n, d |-> 1]

RatDiv(q, k) == Rat(q.n, q.d * k)

RatTrunc(q) == IF q.n >= 0 THEN q.n \div q.d ELSE -((-q.n) \div q.d)

----------------------------------------------------------------------------
(* IEEE-754 binary64 arithmetic, as far as (1 - a/255.0) * 100 needs it.
   A non-negative double is [m, e] with value m * 2^e.  The significand m
   is a natural number of at most Precision significant bits, written as a
   sequence of LimbBits-bit limbs, least significant first, with no
   leading zero limb. *)
Precision == 53

LimbBits == 15

Base == 2 ^ LimbBits

Limb(m, j) == IF j \in DOMAIN m THEN m[j] ELSE 0

Trim(m) ==
    LET nz == {j \in DOMAIN m : m[j] # 0}
    IN  IF nz = {} THEN <<>>
        ELSE SubSeq(m, 1, CHOOSE j \in nz : \A k \in nz : k <= j)

RECURSIVE LimbsOfInt(_)
LimbsOfInt(n) == IF n = 0 THEN <<>> ELSE <<n % Base>> \o LimbsOfInt(n \div Base)

RECURSIVE IntOfLimbs(_)
IntOfLimbs(m) == IF m = <<>> THEN 0 ELSE Head(m) + Base * IntOfLimbs(Tail(m))

RECURSIVE BitLenInt(_)
BitLenInt(n) == IF n = 0 THEN 0 ELSE 1 + BitLenInt(n \div 2)

BitLen(m) ==
    LET t == Trim(m)
    IN  IF t = <<>> THEN 0 ELSE LimbBits * (Len(t) - 1) + BitLenInt(t[Len(t)])

RECURSIVE NatAdd(_, _, _)
NatAdd(a, b, c) ==
    IF a = <<>> /\ b = <<>>
    THEN IF c = 0 THEN <<>> ELSE <<c>>
    ELSE LET s == Limb(a, 1) + Limb(b, 1) + c
         IN  <<s % Base>> \o NatAdd(IF a = <<>> THEN a ELSE Tail(a),
                                    IF b = <<>> THEN b ELSE Tail(b), s \div Base)

(* a - b - c for a >= b + c. *)
RECURSIVE NatSub(_, _, _)
NatSub(a, b, c) ==
    IF a = <<>>
    THEN <<>>
    ELSE LET d == Head(a) - Limb(b, 1) - c
         IN  <<(d + Base) % Base>> \o NatSub(Tail(a), IF b = <<>> THEN b ELSE Tail(b),
                                             IF d < 0 THEN 1 ELSE 0)

(* a * k + c for one limb k. *)
RECURSIVE NatMulLimb(_, _, _)
NatMulLimb(a, k, c) ==
    IF a = <<>>
    THEN IF c = 0 THEN <<>> ELSE <<c>>
    ELSE LET s == Head(a) * k + c
         IN  <<s % Base>> \o NatMulLimb(Tail(a), k, s \div Base)

RECURSIVE NatMul(_, _)
NatMul(a, b) ==
    IF b = <<>>
    THEN <<>>
    ELSE NatAdd(NatMulLimb(a, Head(b), 0), <<0>> \o NatMul(a, Tail(b)), 0)

(* m * 2^s and floor(m / 2^s). *)
ShiftLeft(m, s) ==
    LET q == s \div LimbBits
        t == s % LimbBits
    IN  IF m = <<>> THEN <<>>
        ELSE Trim([j \in 1..(Len(m) + q + 1) |->
                     IF j <= q THEN 0
                     ELSE ((Limb(m, j - q) * (2 ^ t)) % Base)
                          + (Limb(m, j - q - 1) \div (2 ^ (LimbBits - t)))])

ShiftRight(m, s) ==
    LET q == s \div LimbBits
        t == s % LimbBits
    IN  Trim([j \in 1..Len(m) |->
                (Limb(m, j + q) \div (2 ^ t))
                + ((Limb(m, j + q + 1) % (2 ^ t)) * (2 ^ (LimbBits - t)))])

(* Bit k of m, bit 0 the least significant. *)
TestBit(m, k) == (Limb(m, k \div LimbBits + 1) \div (2 ^ (k % LimbBits))) % 2

(* Whether m has a non-zero bit below bit s. *)
LowBits(m, s) ==
    \/ \E j \in 1..(s \div LimbBits) : Limb(m, j) # 0
    \/ Limb(m, s \div LimbBits + 1) % (2 ^ (s % LimbBits)) # 0

(* Round the exact value m * 2^e (plus a non-zero tail below it when
   sticky) to the nearest double, ties to even. *)
RoundNearestEven(m, e, sticky) ==
    LET L == BitLen(m)
        s == L - Precision
    IN  IF L <= Precision
        THEN [m |-> Trim(m), e |-> e]
        ELSE LET keep == ShiftRight(m, s)
                 rest == sticky \/ LowBits(m, s - 1)
                 up   == TestBit(m, s - 1) = 1 /\ (rest \/ TestBit(keep, 0) = 1)
                 r    == IF up THEN NatAdd(keep, <<1>>, 0) ELSE keep
             IN  IF BitLen(r) > Precision
                 THEN [m |-> ShiftRight(r, 1), e |-> e + s + 1]
                 ELSE [m |-> r, e |-> e + s]

(* Limbs carried below the binary point by a division: enough for
   Precision + 1 significant bits of any quotient of integers below Base. *)
FracLimbs == 5

(* Long division: the next count limbs of the fraction r / d, 0 <= r < d,
   least significant first, and the remainder left after them. *)
RECURSIVE DivLimbs(_, _, _)
DivLimbs(r, d, count) ==
    IF count = 0
    THEN [m |-> <<>>, rem |-> r]
    ELSE LET x    == r * Base
             rest == DivLimbs(x % d, d, count - 1)
         IN  [m |-> rest.m \o <<x \div d>>, rem |-> rest.rem]

FloatOfInt(n) == RoundNearestEven(LimbsOfInt(n), 0, FALSE)

(* n / d for integers 0 <= n and 0 < d < Base. *)
FloatDivInt(n, d) ==
    LET f == DivLimbs(n % d, d, FracLimbs)
    IN  RoundNearestEven(f.m \o LimbsOfInt(n \div d), -(FracLimbs * LimbBits),
                         f.rem # 0)

(* x - y for doubles x >= y >= 0. *)
FloatSub(x, y) ==
    LET e == IF x.e < y.e THEN x.e ELSE y.e
    IN  RoundNearestEven(Trim(NatSub(ShiftLeft(x.m, x.e - e),
                                     ShiftLeft(y.m, y.e - e), 0)), e, FALSE)

FloatMul(x, y) == RoundNearestEven(NatMul(x.m, y.m), x.e + y.e, FALSE)

(* int(x) for a double x >= 0: the integer part. *)
FloatTrunc(x) ==
    IF x.e >= 0
    THEN IntOfLimbs(ShiftLeft(x.m, x.e))
    ELSE IntOfLimbs(ShiftRight(x.m, -x.e))

----------------------------------------------------------------------------
(* class Rhino2FC *)

Vector(x, y, z) == [X |-> x, Y |-> y, Z |-> z]

(* Mutant of get_point_and_weight: a zero weight is let through and the
   coordinates are returned undivided. *)
get_point_and_weight_ZeroWeightPassed(point4d) ==
    IF point4d.W = 0
    THEN Return([p |-> Vector(RatInt(point4d.X), RatInt(point4d.Y), RatInt(point4d.Z)),
                 w |-> point4d.W])
    ELSE Return([p |-> Vector(Rat(point4d.X, point4d.W),
                              Rat(point4d.Y, point4d.W),
                              Rat(point4d.Z, point4d.W)),
                 w |-> point4d.W])

(* Rhino2FC.get_point_and_weight: the three divisions by point4d.W raise
   ZeroDivisionError when W is zero. *)
get_point_and_weight(point4d) ==
    IF point4d.W = 0
    THEN Raise("ZeroDivisionError")
    ELSE Return([p |-> Vector(Rat(point4d.X, point4d.W),
                              Rat(point4d.Y, point4d.W),
                              Rat(point4d.Z, point4d.W)),
                 w |-> point4d.W])

(* Rhino2FC.get_point *)
get_point(point) == Vector(RatInt(point.X), RatInt(point.Y), RatInt(point.Z))

(* Rhino2FC.get_color: every channel divided by 255.0. *)
get_color(rhino_color) == [k \in 1..4 |-> RatDiv(rhino_color[k], 255)]

(* Rhino2FC.get_color_and_transparency: channels are integers in 0..255;
   the transparency is int((1 - a/255.0) * 100), computed in doubles. *)
get_color_and_transparency(rhino_color) ==
    LET a == FloatDivInt(rhino_color[4], 255)
    IN  [color |-> [k \in 1..3 |-> Rat(rhino_color[k], 255)],
         transparency |-> FloatTrunc(FloatMul(FloatSub(FloatOfInt(1), a),
                                              FloatOfInt(100)))]

(* list(set(k)) followed by sort(). *)
RECURSIVE SortSet(_)
SortSet(S) ==
    IF S = {}
    THEN <<>>
    ELSE LET m == CHOOSE x \in S : \A y \in S : x <= y
         IN  <<m>> \o SortSet(S \ {m})

(* k.count(kn) *)
Count(k, kn) == Cardinality({j \in DOMAIN k : k[j] = kn})

(* for kn in knots: mults.append(k.count(kn)) *)
Mults(k, knots) == [j \in DOMAIN knots |-> Count(k, knots[j])]

(* Mutant of ClampEnds: the increment of the last multiplicity is lost. *)
ClampEnds_FirstOnly(mults) == [mults EXCEPT ![1] = @ + 1]

(* mults[0] += 1; mults[-1] += 1: with one distinct knot both increments
   hit the same entry. *)
ClampEnds(mults) == [[mults EXCEPT ![1] = @ + 1] EXCEPT ![Len(mults)] = @ + 1]

(* The rest of get_FCKnots once the sorted distinct knots are known:
   mults[0] raises IndexError on an empty list. *)
KnotsAndMults(k, knots) ==
    IF knots = <<>>
    THEN Raise("IndexError")
    ELSE Return([knots |-> knots, mults |-> ClampEnds(Mults(k, knots))])

(* Rhino2FC.get_FCKnots *)
get_FCKnots(fknots) == KnotsAndMults(fknots, SortSet({fknots[j] : j \in DOMAIN fknots}))

(* Mutant of IsPeriodic: the comparison is off by one. *)
IsPeriodic_OffByOne(mults, degree) == mults[1] <= degree + 1

(* The test that decides setPeriodic / setUPeriodic / setVPeriodic. *)
IsPeriodic(mults, degree) == mults[1] < degree + 1

(* get_bspline_curve once the poles and weights pw and the compacted knots
   km are computed.  curve.fault names the Part call that raises on this
   curve ("" when none does): the kernel's answer is an input. *)
BuildCurve(curve, pw, km) ==
    IF \E u \in DOMAIN pw : ~pw[u].ok
    THEN Raise("ZeroDivisionError")
    ELSE IF ~km.ok
    THEN km
    ELSE IF curve.fault = "buildFromPolesMultsKnots"
    THEN Raise("Part.OCCError")
    ELSE Return([poles    |-> [u \in DOMAIN pw |-> pw[u].val.p],
                 weights  |-> [u \in DOMAIN pw |-> pw[u].val.w],
                 knots    |-> km.val.knots,
                 mults    |-> km.val.mults,
                 degree   |-> curve.Degree,
                 periodic |-> IsPeriodic(km.val.mults, curve.Degree)])

(* Rhino2FC.get_bspline_curve *)
get_bspline_curve(curve) ==
    BuildCurve(curve,
               [u \in DOMAIN curve.Points |-> get_point_and_weight(curve.Points[u])],
               get_FCKnots(curve.Knots))

(* get_bspline_surface once the pole grid pw and the compacted knots ku
   and kv are computed. *)
BuildSurface(surf, pw, ku, kv) ==
    IF \E u \in DOMAIN pw : \E v \in DOMAIN pw[u] : ~pw[u][v].ok
    THEN Raise("ZeroDivisionError")
    ELSE IF ~ku.ok
    THEN ku
    ELSE IF ~kv.ok
    THEN kv
    ELSE IF surf.fault = "buildFromPolesMultsKnots"
    THEN Raise("Part.OCCError")
    ELSE Return([poles     |-> [u \in DOMAIN pw |->
                                  [v \in DOMAIN pw[u] |-> pw[u][v].val.p]],
                 weights   |-> [u \in DOMAIN pw |->
                                  [v \in DOMAIN pw[u] |-> pw[u][v].val.w]],
                 uknots    |-> ku.val.knots,
                 vknots    |-> kv.val.knots,
                 umults    |-> ku.val.mults,
                 vmults    |-> kv.val.mults,
                 udegree   |-> surf.DegreeU,
                 vdegree   |-> surf.DegreeV,
                 uperiodic |-> IsPeriodic(ku.val.mults, surf.DegreeU),
                 vperiodic |-> IsPeriodic(kv.val.mults, surf.DegreeV)])

(* Rhino2FC.get_bspline_surface.  surf.Points is the grid, a sequence of
   rows; DegreeU and DegreeV are surf.Degree(0) and surf.Degree(1). *)
get_bspline_surface(surf) ==
    BuildSurface(surf,
                 [u \in DOMAIN surf.Points |->
                    [v \in DOMAIN surf.Points[u] |->
                       get_point_and_weight(surf.Points[u][v])]],
                 get_FCKnots(surf.KnotsU),
                 get_FCKnots(surf.KnotsV))

----------------------------------------------------------------------------
(* SpecTranslator: one Rhino2FC method is called on an input drawn from
   the sets below. *)

SeqsUpTo(S, n) == UNION {[1..k -> S] : k \in 0..n}

Coords == (-MaxCoord)..MaxCoord

Point4dSet == [X : Coords, Y : Coords, Z : Coords, W : Coords]

GoodPoint == [X |-> 2, Y |-> 0, Z |-> -2, W |-> 2]

ZeroWPoint == [X |-> 1, Y |-> 0, Z |-> 0, W |-> 0]

(* Raw knot vectors: every sequence over the knot values, ordered or not,
   and two longer vectors: a clamped cubic and a uniform periodic cubic. *)
ClampedKnots == <<0, 0, 0, 0, 1, 2, 3, 4, 4, 4, 4>>

UniformKnots == <<-3, -2, -1, 0, 1, 2, 3, 4, 5>>

KnotSeqs == SeqsUpTo(0..MaxKnotValue, MaxKnots) \cup {ClampedKnots, UniformKnots}

SurfKnotSeqs == SeqsUpTo(0..MaxKnotValue, MaxSurfKnots) \cup {ClampedKnots, UniformKnots}

Degrees == 1..MaxDegree

CurveSet ==
    [Points : {<<GoodPoint, GoodPoint>>, <<GoodPoint, ZeroWPoint>>},
     Knots  : KnotSeqs,
     Degree : Degrees,
     fault  : {"", "buildFromPolesMultsKnots"}]

SurfSet ==
    [Points  : {<<<<GoodPoint, GoodPoint>>, <<GoodPoint, GoodPoint>>>>,
                <<<<GoodPoint, ZeroWPoint>>>>},
     KnotsU  : SurfKnotSeqs,
     KnotsV  : SurfKnotSeqs,
     DegreeU : Degrees,
     DegreeV : Degrees,
     fault   : {""}]

Channels == 0..255

ColorSet == {<<r, g, b, a>> : r \in {0, 255}, g \in {0, 255}, b \in {0}, a \in Channels}

Calls ==
    [fn : {"get_point_and_weight"}, arg : Point4dSet]
    \cup [fn : {"get_FCKnots"}, arg : KnotSeqs]
    \cup [fn : {"get_bspline_curve"}, arg : CurveSet]
    \cup [fn : {"get_bspline_surface"}, arg : SurfSet]
    \cup [fn : {"get_color_and_transparency"}, arg : ColorSet]

NoCall == [fn |-> "none", arg |-> <<>>]

(* The value of last before the first import_geometry call. *)
NoImport ==
    [cls |-> "", layer_idx |-> 0, ndoc |-> 0, layers |-> <<>>, ret |-> 0, exc |-> ""]

Idle ==
    /\ pc = "idle"
    /\ i = 0
    /\ GuiUp = FALSE
    /\ f3dm = [Materials |-> 0, Groups |-> 0, Layers |-> 0, Objects |-> 0]
    /\ r3layers = <<>>
    /\ materials = <<>>
    /\ groups = <<>>
    /\ layers = <<>>
    /\ docObjects = <<>>
    /\ imported = <<>>
    /\ last = NoImport
    /\ raised = ""

pipelineVars == <<pc, i, GuiUp, f3dm, r3layers, materials, groups, layers,
                  docObjects, imported, last, raised>>

InitTranslator ==
    /\ call \in Calls
    /\ ret = Pending
    /\ Idle

Call_get_point_and_weight ==
    /\ call.fn = "get_point_and_weight" /\ ret = Pending
    /\ ret' = get_point_and_weight(call.arg)
    /\ UNCHANGED <<call, pipelineVars>>

Call_get_FCKnots ==
    /\ call.fn = "get_FCKnots" /\ ret = Pending
    /\ ret' = get_FCKnots(call.arg)
    /\ UNCHANGED <<call, pipelineVars>>

Call_get_bspline_curve ==
    /\ call.fn = "get_bspline_curve" /\ ret = Pending
    /\ ret' = get_bspline_curve(call.arg)
    /\ UNCHANGED <<call, pipelineVars>>

Call_get_bspline_surface ==
    /\ call.fn = "get_bspline_surface" /\ ret = Pending
    /\ ret' = get_bspline_surface(call.arg)
    /\ UNCHANGED <<call, pipelineVars>>

Call_get_color_and_transparency ==
    /\ call.fn = "get_color_and_transparency" /\ ret = Pending
    /\ ret' = Return(get_color_and_transparency(call.arg))
    /\ UNCHANGED <<call, pipelineVars>>

NextTranslator ==
    \/ Call_get_point_and_weight
    \/ Call_get_FCKnots
    \/ Call_get_bspline_curve
    \/ Call_get_bspline_surface
    \/ Call_get_color_and_transparency

SpecTranslator == InitTranslator /\ [][NextTranslator]_vars

----------------------------------------------------------------------------
(* class File3dm: the entities an import can meet. *)

(* The rhino3dm classes an entity of class c is an instance of. *)
Bases(c) ==
    IF c \in {"LineCurve", "NurbsCurve", "ArcCurve", "PolylineCurve"} THEN {c, "Curve"}
    ELSE IF c \in {"NurbsSurface", "PlaneSurface"} THEN {c, "Surface"}
    ELSE {c}

isinstance(geo, c) == c \in Bases(geo.cls)

(* doc.addObject(TypeId, Name): a new object whose properties are still
   to be set; its handle is its position in the document. *)
addObject(doc, TypeId, Name) ==
    Append(doc, [TypeId |-> TypeId, Name |-> Name, complete |-> FALSE])

(* Outcomes of import_geometry / import_curve: the document after the call,
   the returned handle (None for nothing) and the exception that left it. *)
Created(doc) ==
    [doc |-> [doc EXCEPT ![Len(doc)].complete = TRUE], ret |-> Len(doc), exc |-> ""]

Failed(doc, e) == [doc |-> doc, ret |-> None, exc |-> e]

(* Mutant of Nothing: an entity no branch returns for gets a placeholder
   object instead of None. *)
Nothing_Placeholder(doc) == Created(addObject(doc, "Part::Feature", "Unknown"))

(* No branch returned: the function ends and returns None. *)
Nothing(doc) == [doc |-> doc, ret |-> None, exc |-> ""]

(* bs = get_bspline_curve(...); obj = doc.addObject("Part::Spline", Name);
   obj.Shape = bs.toShape().  fault names the Part call that raises on the
   entity ("" when none does). *)
SplineObject(doc, bs, fault, Name) ==
    IF ~bs.ok THEN Failed(doc, bs.exc)
    ELSE IF fault = "toShape"
    THEN Failed(addObject(doc, "Part::Spline", Name), "Part.OCCError")
    ELSE Created(addObject(doc, "Part::Spline", Name))

(* File3dm.import_curve *)
import_curve(doc, geo) ==
    IF isinstance(geo, "LineCurve")
    THEN Created(addObject(doc, "Part::Line", "Line"))
    ELSE IF isinstance(geo, "NurbsCurve")
    THEN SplineObject(doc, get_bspline_curve(geo), geo.fault, "NurbsCurve")
    ELSE IF isinstance(geo, "ArcCurve")
    THEN SplineObject(doc, get_bspline_curve(geo.ToNurbsCurve), geo.fault, "ArcCurve")
    ELSE Nothing(doc)

(* s = get_bspline_surface(...); obj = doc.addObject("Part::Feature",
   "NurbsSurface"); obj.Shape = s.toShape(). *)
SurfaceObject(doc, s, fault) ==
    IF ~s.ok THEN Failed(doc, s.exc)
    ELSE IF fault = "toShape"
    THEN Failed(addObject(doc, "Part::Feature", "NurbsSurface"), "Part.OCCError")
    ELSE Created(addObject(doc, "Part::Feature", "NurbsSurface"))

(* The Brep branch: every face is converted and shaped before the
   compound is built and the object added; the first face that fails
   ends the call. *)
FacesObject(doc, surfaces, fault) ==
    IF \E k \in DOMAIN surfaces : ~surfaces[k].ok
    THEN Failed(doc, surfaces[CHOOSE k \in DOMAIN surfaces :
                                 /\ ~surfaces[k].ok
                                 /\ \A j \in 1..(k - 1) : surfaces[j].ok].exc)
    ELSE IF fault = "toShape" THEN Failed(doc, "Part.OCCError")
    ELSE Created(addObject(doc, "Part::Feature", "Faces"))

(* File3dm.import_geometry: the isinstance chain, in source order.  The
   branches for BezierCurve, Bitmap, Box, Cone, Cylinder and Ellipse only
   print and fall through to the tests after them. *)
import_geometry(doc, geo) ==
    IF isinstance(geo, "Brep")
    THEN FacesObject(doc,
                     [k \in DOMAIN geo.Faces |->
                        get_bspline_surface(geo.Faces[k].ToNurbsSurface)],
                     geo.fault)
    ELSE IF isinstance(geo, "Circle")
    THEN IF geo.fault = "Radius"
         THEN Failed(addObject(doc, "Part::Circle", "Circle"), "ValueError")
         ELSE Created(addObject(doc, "Part::Circle", "Circle"))
    ELSE IF isinstance(geo, "Curve")
    THEN import_curve(doc, geo)
    ELSE IF isinstance(geo, "Mesh")
    THEN IF geo.fault = "Mesh"
         THEN Failed(doc, "Exception")
         ELSE Created(addObject(doc, "Mesh::Feature", "Mesh"))
    ELSE IF isinstance(geo, "NurbsSurface")
    THEN SurfaceObject(doc, get_bspline_surface(geo), geo.fault)
    ELSE IF isinstance(geo, "Point")
    THEN Created(addObject(doc, "Part::Vertex", "Point"))
    ELSE IF isinstance(geo, "PointCloud")
    THEN IF geo.fault = "Compound"
         THEN Failed(addObject(doc, "Part::Feature", "PointCloud"), "Part.OCCError")
         ELSE Created(addObject(doc, "Part::Feature", "PointCloud"))
    ELSE IF isinstance(geo, "Surface")
    THEN SurfaceObject(doc, get_bspline_surface(geo.ToNurbsSurface), geo.fault)
    ELSE Nothing(doc)

----------------------------------------------------------------------------
(* The contents a file's lists are drawn from. *)

RhinoColor(r, g, b, a) == <<RatInt(r), RatInt(g), RatInt(b), RatInt(a)>>

Black == RhinoColor(0, 0, 0, 255)

Red == RhinoColor(255, 0, 0, 255)

Green == RhinoColor(0, 255, 0, 255)

Blue == RhinoColor(0, 0, 255, 255)

MaterialSet ==
    [AmbientColor  : {Black},
     DiffuseColor  : {Black, Red},
     EmissionColor : {Black},
     SpecularColor : {Black},
     Shine         : {0},
     Transparency  : {RatInt(0), RatInt(1)}]

LayerSet ==
    [Name                : {"Layer"},
     Color               : {Black, Green},
     PlotColor           : {Blue},
     RenderMaterialIndex : (-1)..MaxMaterials]

PlainLayer ==
    [Name |-> "Layer", Color |-> Green, PlotColor |-> Blue, RenderMaterialIndex |-> -1]

GoodCurve ==
    [Points |-> <<GoodPoint, GoodPoint>>, Knots |-> <<0, 0, 1, 1>>, Degree |-> 1]

GoodSurf ==
    [Points  |-> <<<<GoodPoint, GoodPoint>>, <<GoodPoint, GoodPoint>>>>,
     KnotsU  |-> <<0, 0, 1, 1>>, KnotsV |-> <<0, 0, 1, 1>>,
     DegreeU |-> 1, DegreeV |-> 1]

Curve(cls, Points, Knots, fault) ==
    [cls |-> cls, Points |-> Points, Knots |-> Knots, Degree |-> 1, fault |-> fault]

Surf(cls, Points, fault) ==
    [cls |-> cls, Points |-> Points, KnotsU |-> <<0, 0, 1, 1>>, KnotsV |-> <<0, 0, 1, 1>>,
     DegreeU |-> 1, DegreeV |-> 1, fault |-> fault]

Plain(cls, fault) == [cls |-> cls, fault |-> fault]

(* One entity of every class import_geometry tests for, of a curve class
   import_curve has no branch for and of a class nothing tests for; and,
   for the classes that convert, entities on which a conversion step
   raises: a zero weight, an empty knot list, or a Part call. *)
GeoSet ==
    {[cls |-> "Brep", fault |-> f,
      Faces |-> <<[ToNurbsSurface |-> Surf("NurbsSurface", GoodSurf.Points, "")]>>]
        : f \in {"", "toShape"}}
    \cup {[cls |-> "Brep", fault |-> "",
           Faces |-> <<[ToNurbsSurface |-> Surf("NurbsSurface", GoodSurf.Points, "")],
                       [ToNurbsSurface |->
                          Surf("NurbsSurface", <<<<GoodPoint, ZeroWPoint>>>>, "")]>>]}
    \cup {Plain(c, "") : c \in {"BezierCurve", "Bitmap", "Box", "Cone", "Cylinder",
                                "Ellipse", "LineCurve", "PolylineCurve", "Point",
                                "TextDot"}}
    \cup {Plain("Circle", f) : f \in {"", "Radius"}}
    \cup {Plain("Mesh", f) : f \in {"", "Mesh"}}
    \cup {Plain("PointCloud", f) : f \in {"", "Compound"}}
    \cup {Curve("NurbsCurve", GoodCurve.Points, GoodCurve.Knots, f)
            : f \in {"", "buildFromPolesMultsKnots", "toShape"}}
    \cup {Curve("NurbsCurve", <<GoodPoint, ZeroWPoint>>, GoodCurve.Knots, ""),
          Curve("NurbsCurve", GoodCurve.Points, <<>>, "")}
    \cup {[cls |-> "ArcCurve", fault |-> f,
           ToNurbsCurve |-> Curve("NurbsCurve", GoodCurve.Points, GoodCurve.Knots, "")]
            : f \in {"", "toShape"}}
    \cup {Surf("NurbsSurface", GoodSurf.Points, f)
            : f \in {"", "buildFromPolesMultsKnots", "toShape"}}
    \cup {Surf("NurbsSurface", <<<<GoodPoint, ZeroWPoint>>>>, "")}
    \cup {[cls |-> "PlaneSurface", fault |-> f,
           ToNurbsSurface |-> Surf("NurbsSurface", GoodSurf.Points, "")]
            : f \in {"", "toShape"}}

LayerIndexSet == (-1)..MaxLayers

(* Files that exercise the layer styling carry no objects; files that
   carry objects carry plain layers and neither materials nor groups. *)
Files ==
    [Materials : 0..MaxMaterials, Groups : 0..MaxGroups, Layers : 0..MaxLayers,
     Objects : {0}]
    \cup [Materials : {0}, Groups : {0}, Layers : 0..MaxLayers, Objects : 1..MaxObjects]

LayerChoices == IF f3dm.Objects > 0 THEN {PlainLayer} ELSE LayerSet

----------------------------------------------------------------------------
(* process3DM *)

translatorVars == <<call, ret>>

(* File3dm.__init__ and the start of process3DM. *)
Init ==
    /\ call = NoCall
    /\ ret = Pending
    /\ pc = "parse_materials"
    /\ i = 0
    /\ GuiUp \in BOOLEAN
    /\ f3dm \in Files
    /\ r3layers = <<>>
    /\ materials = <<>>
    /\ groups = <<>>
    /\ layers = <<>>
    /\ docObjects = <<>>
    /\ imported = <<>>
    /\ last = NoImport
    /\ raised = ""

(* One iteration of the loop of File3dm.parse_materials. *)
parse_materials ==
    /\ pc = "parse_materials" /\ i < f3dm.Materials
    /\ \E m \in MaterialSet :
          materials' = Append(materials,
                              [AmbientColor  |-> get_color(m.AmbientColor),
                               DiffuseColor  |-> get_color(m.DiffuseColor),
                               EmissiveColor |-> get_color(m.EmissionColor),
                               SpecularColor |-> get_color(m.SpecularColor),
                               Shininess     |-> m.Shine,
                               Transparency  |-> m.Transparency])
    /\ i' = i + 1
    /\ UNCHANGED <<translatorVars, pc, GuiUp, f3dm, r3layers, groups, layers,
                   docObjects, imported, last, raised>>

(* parse_materials returns; process3DM calls parse_groups. *)
call_parse_groups ==
    /\ pc = "parse_materials" /\ i = f3dm.Materials
    /\ pc' = "parse_groups"
    /\ i' = 0
    /\ UNCHANGED <<translatorVars, GuiUp, f3dm, r3layers, materials, groups, layers,
                   docObjects, imported, last, raised>>

(* One iteration of the loop of File3dm.parse_groups. *)
parse_groups ==
    /\ pc = "parse_groups" /\ i < f3dm.Groups
    /\ groups' = Append(groups, [Index |-> i])
    /\ i' = i + 1
    /\ UNCHANGED <<translatorVars, pc, GuiUp, f3dm, r3layers, materials, layers,
                   docObjects, imported, last, raised>>

(* parse_groups returns; process3DM calls parse_layers. *)
call_parse_layers ==
    /\ pc = "parse_groups" /\ i = f3dm.Groups
    /\ pc' = "parse_layers"
    /\ i' = 0
    /\ UNCHANGED <<translatorVars, GuiUp, f3dm, r3layers, materials, groups, layers,
                   docObjects, imported, last, raised>>

White == <<RatInt(1), RatInt(1), RatInt(1)>>

IsBlack(color) == \A k \in 1..3 : color[k].n = 0

(* "Prevent black ShapeColor" *)
PreventBlack(view) ==
    IF IsBlack(view.ShapeColor) THEN [view EXCEPT !.ShapeColor = White] ELSE view

(* The test that sends a layer to its render material. *)
HasMaterial(mat_idx, mats) == mat_idx > 0 /\ mat_idx < Len(mats)

(* The ViewObject properties parse_layers sets on a layer when the GUI is
   up; mats[mat_idx + 1] is Python's self.materials[mat_idx]. *)
LayerView(r3l, mats) ==
    LET mat_idx == r3l.RenderMaterialIndex
    IN  PreventBlack(
          IF HasMaterial(mat_idx, mats)
          THEN [LineColor    |-> <<RatInt(0), RatInt(0), RatInt(0), RatInt(0)>>,
                ShapeColor   |-> get_color(mats[mat_idx + 1].DiffuseColor),
                Transparency |-> RatTrunc(mats[mat_idx + 1].Transparency)]
          ELSE [LineColor    |-> get_color(r3l.PlotColor),
                ShapeColor   |-> get_color(r3l.Color),
                Transparency |-> 0])

NoView == [LineColor |-> <<>>, ShapeColor |-> <<>>, Transparency |-> 0]

(* One iteration of the loop of File3dm.parse_layers. *)
parse_layers ==
    /\ pc = "parse_layers" /\ i < f3dm.Layers
    /\ \E r3l \in LayerChoices :
          /\ layers' = Append(layers,
                              [Label      |-> r3l.Name,
                               Group      |-> <<>>,
                               ViewObject |-> IF GuiUp THEN LayerView(r3l, materials)
                                              ELSE NoView])
          /\ r3layers' = Append(r3layers, r3l)
    /\ i' = i + 1
    /\ UNCHANGED <<translatorVars, pc, GuiUp, f3dm, materials, groups,
                   docObjects, imported, last, raised>>

(* parse_layers returns; process3DM calls parse_objects. *)
call_parse_objects ==
    /\ pc = "parse_layers" /\ i = f3dm.Layers
    /\ pc' = "parse_objects"
    /\ i' = 0
    /\ UNCHANGED <<translatorVars, GuiUp, f3dm, r3layers, materials, groups, layers,
                   docObjects, imported, last, raised>>

(* Whether parse_objects goes on to self.layers[layer_idx]. *)
LayerGuard(layer_idx, n) == layer_idx < n

(* Python's list index: a negative index counts from the end; 0 stands for
   an index out of range (IndexError). *)
PyIndex(idx, n) ==
    IF 0 <= idx /\ idx < n THEN idx + 1
    ELSE IF idx < 0 /\ -idx <= n THEN n + idx + 1
    ELSE 0

(* What follows import_geometry in an iteration of parse_objects: r is the
   call's outcome, slot the layer self.layers[layer_idx] designates.  An
   exception leaves the loop, parse_objects and process3DM. *)
AfterImport(cls, layer_idx, r, slot) ==
    /\ docObjects' = r.doc
    /\ last' = [cls |-> cls, layer_idx |-> layer_idx, ndoc |-> Len(docObjects),
                layers |-> layers, ret |-> r.ret, exc |-> r.exc]
    /\ IF r.exc # ""
       THEN /\ raised' = r.exc
            /\ pc' = "raised"
            /\ UNCHANGED <<i, imported, layers>>
       ELSE IF r.ret # None
       THEN /\ imported' = Append(imported, [obj |-> r.ret, layer_idx |-> layer_idx])
            /\ IF ~LayerGuard(layer_idx, Len(layers))
               THEN /\ i' = i + 1
                    /\ UNCHANGED <<pc, raised, layers>>
               ELSE IF slot = 0
               THEN /\ raised' = "IndexError"
                    /\ pc' = "raised"
                    /\ UNCHANGED <<i, layers>>
               ELSE /\ layers' = [layers EXCEPT ![slot].Group = Append(@, r.ret)]
                    /\ i' = i + 1
                    /\ UNCHANGED <<pc, raised>>
       ELSE /\ i' = i + 1
            /\ UNCHANGED <<pc, raised, imported, layers>>

(* One iteration of the loop of File3dm.parse_objects. *)
parse_objects ==
    /\ pc = "parse_objects" /\ i < f3dm.Objects
    /\ \E geo \in GeoSet, layer_idx \in LayerIndexSet :
          AfterImport(geo.cls, layer_idx, import_geometry(docObjects, geo),
                      PyIndex(layer_idx, Len(layers)))
    /\ UNCHANGED <<translatorVars, GuiUp, f3dm, r3layers, materials, groups>>

(* parse_objects returns; process3DM fits the view and ends. *)
finish ==
    /\ pc = "parse_objects" /\ i = f3dm.Objects
    /\ pc' = "done"
    /\ UNCHANGED <<translatorVars, i, GuiUp, f3dm, r3layers, materials, groups, layers,
                   docObjects, imported, last, raised>>

Next ==
    \/ parse_materials
    \/ call_parse_groups
    \/ parse_groups
    \/ call_parse_layers
    \/ parse_layers
    \/ call_parse_objects
    \/ parse_objects
    \/ finish

Spec == Init /\ [][Next]_vars

----------------------------------------------------------------------------
(* Properties of the Rhino2FC methods, checked under SpecTranslator. *)

Called(fn) == call.fn = fn /\ ret # Pending

NonDecreasing(k) == \A j \in 1..(Len(k) - 1) : k[j] <= k[j + 1]

StrictlyIncreasing(k) == \A j \in 1..(Len(k) - 1) : k[j] < k[j + 1]

ValidKnots(k) == k # <<>> /\ NonDecreasing(k)

(* The result holds the distinct knot values, ascending, and one
   multiplicity per knot. *)
CompactShape(raw, r) ==
    /\ r.ok
    /\ StrictlyIncreasing(r.val.knots)
    /\ {r.val.knots[j] : j \in DOMAIN r.val.knots} = {raw[j] : j \in DOMAIN raw}
    /\ Len(r.val.mults) = Len(r.val.knots)

(* C1 as stated: on a non-empty, non-decreasing raw knot sequence
   get_FCKnots returns the distinct knots in strictly increasing order and
   a parallel multiplicity list in which the first and the last entry each
   equal that knot's raw occurrence count plus 1 and every other entry its
   raw occurrence count, also when there is a single distinct knot. *)
C1_EndsBoostedByOne ==
    (Called("get_FCKnots") /\ ValidKnots(call.arg)) =>
        /\ CompactShape(call.arg, ret)
        /\ \A j \in DOMAIN ret.val.mults :
              ret.val.mults[j] = Count(call.arg, ret.val.knots[j])
                                 + (IF j = 1 \/ j = Len(ret.val.mults) THEN 1 ELSE 0)

(* C1 amended: as C1, except that one increment is applied for being first
   and one for being last, so that with a single distinct knot its
   multiplicity is the raw occurrence count plus 2. *)
C1_EndsBoostedPerEnd ==
    (Called("get_FCKnots") /\ ValidKnots(call.arg)) =>
        /\ CompactShape(call.arg, ret)
        /\ \A j \in DOMAIN ret.val.mults :
              ret.val.mults[j] = Count(call.arg, ret.val.knots[j])
                                 + (IF j = 1 THEN 1 ELSE 0)
                                 + (IF j = Len(ret.val.mults) THEN 1 ELSE 0)

C1_Witness ==
    /\ Called("get_FCKnots")
    /\ call.arg = <<1, 1>>
    /\ ret = Return([knots |-> <<1>>, mults |-> <<4>>])

(* The first multiplicity of the compacted vector of raw knots k. *)
FirstMult(k) == get_FCKnots(k).val.mults[1]

(* C2: get_bspline_curve marks the curve periodic iff the first
   multiplicity of the compacted knot vector is strictly less than
   degree + 1; get_bspline_surface does so per direction, the U flag from
   KnotsU and Degree(0) alone and the V flag from KnotsV and Degree(1)
   alone.  A vector whose raw first multiplicity is degree + 1 is never
   periodic, and degree 3 over the raw knots -3..5 is periodic. *)
C2_PeriodicIffFirstMultBelowOrder ==
    /\ (Called("get_bspline_curve") /\ ret.ok) =>
          /\ ret.val.periodic <=> (FirstMult(call.arg.Knots) < call.arg.Degree + 1)
          /\ ret.val.mults[1] = FirstMult(call.arg.Knots)
          /\ (NonDecreasing(call.arg.Knots)
              /\ Count(call.arg.Knots, call.arg.Knots[1]) = call.arg.Degree + 1)
                => ~ret.val.periodic
          /\ (call.arg.Knots = UniformKnots /\ call.arg.Degree = 3) => ret.val.periodic
    /\ (Called("get_bspline_surface") /\ ret.ok) =>
          /\ ret.val.uperiodic <=> (FirstMult(call.arg.KnotsU) < call.arg.DegreeU + 1)
          /\ ret.val.vperiodic <=> (FirstMult(call.arg.KnotsV) < call.arg.DegreeV + 1)

C2_Witness ==
    /\ Called("get_bspline_curve")
    /\ call.arg.Knots = UniformKnots
    /\ call.arg.Degree = 3
    /\ ret.ok
    /\ ret.val.mults[1] = 2
    /\ ret.val.periodic

(* q is the quotient n / d. *)
IsQuotient(q, n, d) == q.d > 0 /\ q.n * d = n * q.d

(* C6: get_point_and_weight on (X, Y, Z, W) returns the point
   (X/W, Y/W, Z/W) and the weight W when W is non-zero, and fails when
   W = 0 (the division raises ZeroDivisionError): a zero weight never
   comes back as a coordinate. *)
C6_DehomogenizeOrFail ==
    Called("get_point_and_weight") =>
        IF call.arg.W # 0
        THEN /\ ret.ok
             /\ IsQuotient(ret.val.p.X, call.arg.X, call.arg.W)
             /\ IsQuotient(ret.val.p.Y, call.arg.Y, call.arg.W)
             /\ IsQuotient(ret.val.p.Z, call.arg.Z, call.arg.W)
             /\ ret.val.w = call.arg.W
        ELSE ret = Raise("ZeroDivisionError")

C6_Witness ==
    /\ Called("get_point_and_weight")
    /\ call.arg = [X |-> 1, Y |-> 2, Z |-> -1, W |-> 0]
    /\ ~ret.ok

(* C7: get_FCKnots fails whenever the raw knot sequence is empty or is not
   non-decreasing; it returns no compact knot vector for such an input. *)
C7_InvalidKnotsRejected ==
    (Called("get_FCKnots") /\ ~ValidKnots(call.arg)) => ~ret.ok

ColorScaled(c, rgba) == \A k \in 1..3 : IsQuotient(c[k], rgba[k], 255)

RoundedPercent(a) == (2 * (255 - a) * 100 + 255) \div (2 * 255)

(* C8: for channels in 0..255 get_color_and_transparency returns the
   colour (r/255, g/255, b/255) and the integer round((1 - a/255) * 100),
   which lies in 0..100, is 0 for a = 255 and 100 for a = 0. *)
C8_OpacityRounded ==
    Called("get_color_and_transparency") =>
        /\ ColorScaled(ret.val.color, call.arg)
        /\ ret.val.transparency = RoundedPercent(call.arg[4])
        /\ ret.val.transparency \in 0..100

----------------------------------------------------------------------------
(* Properties of the import, checked under Spec. *)

ImportFailed == last.exc # ""

(* C3: a failure raised while translating the object at index i does not
   abort the import: while objects remain after it the loop of
   parse_objects goes on, so that each of them is passed to
   import_geometry. *)
C3_FailureDoesNotAbortImport ==
    (ImportFailed /\ i + 1 < f3dm.Objects) => pc = "parse_objects"

(* C4: a translation completes or fails atomically: when import_geometry
   (or import_curve) fails for an entity, the document holds exactly the
   objects it held before the call. *)
C4_FailedImportAddsNothing ==
    ImportFailed => Len(docObjects) = last.ndoc

Unhandled == {"Bitmap", "Box", "Cone", "Cylinder", "Ellipse", "BezierCurve"}

(* C5: import_geometry on an entity of an unhandled class (Bitmap, Box,
   Cone, Cylinder, Ellipse, BezierCurve) returns None, raises nothing and
   adds no object to the document, and parse_objects appends nothing to
   any layer's Group for it. *)
C5_UnhandledReturnsNothing ==
    last.cls \in Unhandled =>
        /\ last.ret = None
        /\ last.exc = ""
        /\ raised = ""
        /\ Len(docObjects) = last.ndoc
        /\ layers = last.layers

C5_Witness ==
    /\ pc = "done"
    /\ last.cls = "Ellipse"
    /\ last.layer_idx = 0
    /\ Len(docObjects) = 1
    /\ Len(layers) = 1
    /\ layers[1].Group = <<1>>

ValidMaterial(mat_idx, mats) == 0 <= mat_idx /\ mat_idx < Len(mats)

SubstBlack(color) == IF IsBlack(color) THEN White ELSE color

(* C9: with the GUI up, a layer whose material index designates an entry
   of the material list (0 <= index < number of materials, index 0
   included) takes its fill colour and transparency from that material,
   and any other layer takes its fill and line colour from its own
   display and plot colour; in both cases a pure-black fill colour is
   replaced by white. *)
C9_LayerStyleFromValidMaterial ==
    GuiUp =>
        \A k \in DOMAIN layers :
            IF ValidMaterial(r3layers[k].RenderMaterialIndex, materials)
            THEN /\ layers[k].ViewObject.ShapeColor =
                      SubstBlack(get_color(
                          materials[r3layers[k].RenderMaterialIndex + 1].DiffuseColor))
                 /\ layers[k].ViewObject.Transparency =
                      RatTrunc(materials[r3layers[k].RenderMaterialIndex + 1].Transparency)
            ELSE /\ layers[k].ViewObject.ShapeColor =
                      SubstBlack(get_color(r3layers[k].Color))
                 /\ layers[k].ViewObject.LineColor = get_color(r3layers[k].PlotColor)

(* C10: when process3DM has run, every object import_geometry returned a
   handle for appears exactly once in the Group of the layer at the
   position of its LayerIndex and in no other layer's Group, the handles
   of a Group in object-list order; an object whose LayerIndex is
   negative or not smaller than the number of layers is in no Group. *)
C10_HandleInItsLayerGroupOnly ==
    pc = "done" =>
        /\ \A k \in DOMAIN imported : \A n \in DOMAIN layers :
              Count(layers[n].Group, imported[k].obj)
                = (IF n = imported[k].layer_idx + 1 THEN 1 ELSE 0)
        /\ \A n \in DOMAIN layers : StrictlyIncreasing(layers[n].Group)

============================================================================
